---- MODULE Spec2Model ----
(***************************************************************************)
(* aesdsocket (src/server/aesdsocket.c): a TCP server that accepts one     *)
(* client at a time, appends every newline-terminated packet it receives   *)
(* to DATAFILE and sends the whole file back after each packet.            *)
(*                                                                         *)
(* The process is one flow of control (main -> listen_socket ->            *)
(* handle_client) that signal_handler may interrupt between any two steps. *)
(* pc is the position of that flow; one action models one step of it, and  *)
(* the results of the system calls (recv, send, accept, fopen, malloc ...) *)
(* are inputs drawn with \E.                                               *)
(*                                                                         *)
(* DATAFILE does not exist when the process starts (the state a clean      *)
(* shutdown leaves behind, line 308).                                      *)
(***************************************************************************)
EXTENDS Integers, Sequences, FiniteSets, TLC

\* ------------------------------------------------------------ constants
\* '\n' (line 192)
NL == 10
\* char temp[512] (line 159)
TEMP_SIZE == 512
\* size_t bufsize = 1024 (line 149)
INIT_BUFSIZE == 1024
\* char sendbuf[1024] (line 209)
SENDBUF_SIZE == 1024
\* "no descriptor" (lines 37, 38)
NOFD == -1
\* the descriptor socket() returns (line 71); clients are 1, 2, ...
LISTEN_FD == 0

\* ------------------------------------------------------------ bounds
\* connections the environment offers in one process lifetime
MaxConns == 2
\* recv() calls that deliver data, over the whole lifetime
MaxRecv == 2
\* failing or short system/library calls, over the whole lifetime
MaxFaults == 1
\* the same three for the specification with fairness
FairConns == 1
FairRecv == 1
FairFaults == 1

\* ------------------------------------------------------------ inputs
\* 512 bytes without a delimiter: a full temp buffer
Filler == [k \in 1..TEMP_SIZE |-> 97]
\* what one recv() may deliver: a lone delimiter, two packets followed by a
\* partial one, a full temp buffer
ClientChunks ==
    { <<NL>>, <<97, NL, 98, NL, 99>>, Filler }
\* a send() that takes fewer bytes than offered takes this many
ShortCounts(nn) == { k \in {1, nn - 1} : 0 < k /\ k < nn }

\* ------------------------------------------------------------ byte strings
Min(S) == CHOOSE x \in S : \A y \in S : x <= y
Max(S) == CHOOSE x \in S : \A y \in S : x >= y
IsPrefix(a, b) == Len(a) <= Len(b) /\ SubSeq(b, 1, Len(a)) = a
NLPositions(s) == { k \in 1..Len(s) : s[k] = NL }
LastNL(s) == IF NLPositions(s) = {} THEN 0 ELSE Max(NLPositions(s))
\* the complete packets of a byte stream: its maximal runs ending in NL,
\* cut at the delimiter positions nls from position from on
RECURSIVE PacketsAt(_, _, _)
PacketsAt(s, nls, from) ==
    IF nls = {} THEN <<>>
    ELSE LET f == Min(nls)
         IN  <<SubSeq(s, from, f)>> \o PacketsAt(s, nls \ {f}, f + 1)
Packets(s) == PacketsAt(s, NLPositions(s), 1)
RECURSIVE Flatten(_)
Flatten(ss) == IF ss = <<>> THEN <<>> ELSE Head(ss) \o Flatten(Tail(ss))
\* the packets of a sequence of fwrite records
PktsOf(ws) == [k \in 1..Len(ws) |-> ws[k].pkt]

\* ------------------------------------------------------------ state
VARIABLES
    pc,               \* position of the main flow
    exitStatus,       \* main's return value once pc = "exited"
    exit_requested,   \* line 36
    global_sockfd,    \* line 37
    global_clientfd,  \* line 38
    sockfd,           \* main's / listen_socket's local sockfd
    clientfd,         \* listen_socket's / handle_client's local clientfd
    openFds,          \* socket descriptors that are open
    closeCalls,       \* close() calls made on each socket descriptor
    conns,            \* connections accepted so far
    storeExists,      \* DATAFILE exists
    store,            \* DATAFILE's content
    fpOpen,           \* handle_client's fp is open
    bufAlloc,         \* recvbuf is allocated
    bufsize,          \* line 149
    recvbuf,          \* recvbuf[0 .. datalen-1]
    datalen,          \* line 158
    temp,             \* temp[0 .. n-1]
    n,                \* recv's result
    temp_offset,      \* line 163
    start,            \* line 190
    i,                \* line 191
    fpos,             \* read position of fp2
    sendbuf,          \* sendbuf[0 .. nn-1]
    nn,               \* fread's result
    recvLeft,         \* data-bearing recv() calls still to come
    faultsLeft,       \* failing calls still to come
    connsLeft,        \* connections still to come
    received,         \* history: bytes received on the current connection
    writes,           \* history: every fwrite call [conn, pkt, ok]
    reply,            \* history: bytes put on the wire in the current reply
    replyErr,         \* history: a send() of the current reply returned < 0
    replyShort,       \* history: a send() of the current reply was short
    events,           \* history: appends and replies of the current connection
    failure           \* history: the last failed call of the current connection

vars == << pc, exitStatus, exit_requested, global_sockfd, global_clientfd,
           sockfd, clientfd, openFds, closeCalls, conns, storeExists, store,
           fpOpen, bufAlloc, bufsize, recvbuf, datalen, temp, n, temp_offset,
           start, i,
           fpos, sendbuf, nn, recvLeft, faultsLeft, connsLeft, received,
           writes, reply, replyErr, replyShort, events, failure >>

sigVars == << exit_requested, global_sockfd, global_clientfd >>
fdVars == << openFds, closeCalls >>
fileVars == << storeExists, store >>
bufVars == << bufAlloc, bufsize, recvbuf, datalen >>
scanVars == << temp, n, temp_offset, start, i >>
sendVars == << fpos, sendbuf, nn >>
budgetVars == << recvLeft, faultsLeft, connsLeft >>
histVars == << received, writes, reply, replyErr, replyShort, events, failure >>

InitWith(nConns, nRecv, nFaults) ==
    /\ pc = "main_open_socket"
    /\ exitStatus = -1
    /\ exit_requested = FALSE
    /\ global_sockfd = NOFD
    /\ global_clientfd = NOFD
    /\ sockfd = NOFD
    /\ clientfd = NOFD
    /\ openFds = {}
    /\ closeCalls = [fd \in LISTEN_FD..MaxConns |-> 0]
    /\ conns = 0
    /\ storeExists = FALSE
    /\ store = <<>>
    /\ fpOpen = FALSE
    /\ bufAlloc = FALSE
    /\ bufsize = 0
    /\ recvbuf = <<>>
    /\ datalen = 0
    /\ temp = <<>>
    /\ n = 0
    /\ temp_offset = 0
    /\ start = 0
    /\ i = 0
    /\ fpos = 0
    /\ sendbuf = <<>>
    /\ nn = 0
    /\ recvLeft = nRecv
    /\ faultsLeft = nFaults
    /\ connsLeft = nConns
    /\ received = <<>>
    /\ writes = <<>>
    /\ reply = <<>>
    /\ replyErr = FALSE
    /\ replyShort = FALSE
    /\ events = <<>>
    /\ failure = "none"

Init == InitWith(MaxConns, MaxRecv, MaxFaults)

\* ------------------------------------------------------------ the code's computations
\* lines 168-170: newsize = bufsize * 2; while (need >= newsize) newsize *= 2
RECURSIVE Doubled(_, _)
Doubled(newsize, need) ==
    IF need >= newsize THEN Doubled(newsize * 2, need) ELSE newsize
NewSize(size, need) == Doubled(size * 2, need)
\* line 167: if (datalen + (n - temp_offset) >= bufsize)
NeedsGrow(len, incoming, size) == len + incoming >= size
\* lines 184-186: memcpy(recvbuf + datalen, temp + temp_offset, copylen)
CopiedIn(buf, len, tmp, off, copylen) ==
    SubSeq(buf, 1, len) \o SubSeq(tmp, off + 1, off + copylen)
\* lines 191-192: the value of i at which the for loop next finds '\n',
\* or datalen when it runs off the end
FindNewline(buf, from, len) ==
    LET hits == { j \in from..(len - 1) : buf[j + 1] = NL }
    IN  IF hits = {} THEN len ELSE Min(hits)
\* lines 193-196: the pktlen = i - start + 1 bytes at recvbuf + start
Packet(buf, from, at) == SubSeq(buf, from + 1, at + 1)
\* the shift without its memmove: datalen is reduced, the bytes stay put
ShiftedBufNoMove(buf, from, len) ==
    IF from > 0 /\ from < len THEN SubSeq(buf, 1, len - from)
    ELSE IF from = len THEN <<>>
    ELSE buf
\* lines 224-229: the buffer and datalen after the leftover shift
ShiftedBuf(buf, from, len) ==
    IF from > 0 /\ from < len THEN SubSeq(buf, from + 1, len)
    ELSE IF from = len THEN <<>>
    ELSE buf
\* the shift that moves the bytes but leaves datalen as it was
ShiftedLenStale(from, len) == len
ShiftedLen(from, len) ==
    IF from > 0 /\ from < len THEN len - from
    ELSE IF from = len THEN 0
    ELSE len
\* the file opened with "w" instead: it is truncated
FOpenTruncate(content) == <<>>
\* line 142: fopen(DATAFILE, "a") keeps what the file holds
FOpenAppend(content) == content
\* line 196-197: fwrite + fflush on a stream opened with "a" writes at the end
FWrite(content, pkt) == content \o pkt
\* line 211: fread(sendbuf, 1, sizeof(sendbuf), fp2) at read position pos
FRead(content, pos) ==
    SubSeq(content, pos + 1, Min({pos + SENDBUF_SIZE, Len(content)}))
\* the exit path without remove()
RemoveFileSkipped(exists) == exists
\* line 308: remove(DATAFILE)
RemoveFile(exists) == FALSE
\* main returning 0 whether or not the socket could be opened
ReturnStatusZero(opened) == 0
\* lines 290-293, 310: return 1 when open_socket failed, return 0 at the end
ReturnStatus(opened) == IF opened THEN 0 ELSE 1
\* close(fd): the descriptor table and the count of close() calls afterwards
CloseFd(fds, fd) == fds \ {fd}
Counted(calls, fd) == [calls EXCEPT ![fd] = @ + 1]

\* handle_client returns: its locals go out of scope, and the histories of
\* the connection end with it
LocalsGone ==
    /\ bufsize' = 0 /\ recvbuf' = <<>> /\ datalen' = 0
    /\ temp' = <<>> /\ n' = 0 /\ temp_offset' = 0 /\ start' = 0 /\ i' = 0
    /\ fpos' = 0 /\ sendbuf' = <<>> /\ nn' = 0
    /\ received' = <<>> /\ reply' = <<>> /\ replyErr' = FALSE
    /\ replyShort' = FALSE /\ events' = <<>> /\ failure' = "none"

\* one failing call is drawn from the budget
Fault == faultsLeft > 0 /\ faultsLeft' = faultsLeft - 1
NoFault == UNCHANGED faultsLeft

Running == pc \notin {"exited", "killed", "hung"}

\* ------------------------------------------------------------ signal_handler
\* The main flow is inside a library call that is not async-signal-safe
\* (syslog, perror, fopen, fclose, fwrite, fflush, fread, malloc, realloc,
\* free) when it is at one of these positions. After a failed accept it is
\* in perror only if exit_requested was clear (lines 253-254).
InUnsafeCall ==
    \/ pc \in { "hc_fopen", "hc_malloc", "hc_fwrite", "hc_fopen_r", "hc_fread",
                "hc_fclose2", "hc_free", "hc_log_closed", "ls_closelog" }
    \/ pc = "ls_accept_failed" /\ ~exit_requested
    \/ /\ pc = "hc_inner"
       /\ temp_offset < n
       /\ NeedsGrow(datalen, n - temp_offset, bufsize)

\* lines 46-58: the flag and the two close() calls
HandlerBody ==
    /\ exit_requested' = TRUE
    /\ openFds' = CloseFd(CloseFd(openFds, global_clientfd), global_sockfd)
    /\ closeCalls' =
          LET c1 == IF global_clientfd # NOFD
                    THEN Counted(closeCalls, global_clientfd) ELSE closeCalls
          IN  IF global_sockfd # NOFD THEN Counted(c1, global_sockfd) ELSE c1
    /\ global_clientfd' = NOFD
    /\ global_sockfd' = NOFD

\* lines 46-60: SIGINT or SIGTERM is delivered and the handler returns
Signal ==
    /\ Running
    /\ HandlerBody
    /\ UNCHANGED << pc, exitStatus, sockfd, clientfd, conns, fileVars, fpOpen,
                    bufVars, scanVars, sendVars, budgetVars, histVars >>

\* line 59: syslog() is not async-signal-safe. Called while the main flow is
\* inside syslog, stdio or malloc, its behaviour is undefined: it may return
\* (Signal) or block for ever on a lock the interrupted call holds.
SignalHang ==
    /\ Running
    /\ InUnsafeCall
    /\ HandlerBody
    /\ pc' = "hung"
    /\ UNCHANGED << exitStatus, sockfd, clientfd, conns, fileVars, fpOpen,
                    bufVars, scanVars, sendVars, budgetVars, histVars >>

\* ------------------------------------------------------------ main, listen_socket
\* lines 289-293 and open_socket (70-100): socket, bind, listen
MainOpenSocket ==
    /\ pc = "main_open_socket"
    /\ \/ /\ sockfd' = LISTEN_FD
          /\ openFds' = openFds \cup {LISTEN_FD}
          /\ pc' = "main_set_global"
          /\ UNCHANGED exitStatus
       \/ /\ pc' = "exited"
          /\ exitStatus' = ReturnStatus(FALSE)
          /\ UNCHANGED << sockfd, openFds >>
    /\ UNCHANGED << sigVars, clientfd, closeCalls, conns, fileVars, fpOpen,
                    bufVars, scanVars, sendVars, budgetVars, histVars >>

\* line 294: global_sockfd = sockfd
MainSetGlobal ==
    /\ pc = "main_set_global"
    /\ global_sockfd' = sockfd
    /\ pc' = "ls_while"
    /\ UNCHANGED << exitStatus, exit_requested, global_clientfd, sockfd,
                    clientfd, fdVars, conns, fileVars, fpOpen, bufVars,
                    scanVars, sendVars, budgetVars, histVars >>

\* line 247: while (!exit_requested)
LsWhile ==
    /\ pc = "ls_while"
    /\ pc' = IF exit_requested THEN "ls_closelog" ELSE "ls_accept"
    /\ UNCHANGED << exitStatus, sigVars, sockfd, clientfd, fdVars, conns,
                    fileVars, fpOpen, bufVars, scanVars, sendVars,
                    budgetVars, histVars >>

\* line 251: accept() returns a new connection
LsAcceptOk ==
    /\ pc = "ls_accept"
    /\ sockfd \in openFds
    /\ connsLeft > 0
    /\ connsLeft' = connsLeft - 1
    /\ conns' = conns + 1
    /\ clientfd' = conns + 1
    /\ openFds' = openFds \cup {conns + 1}
    /\ pc' = "ls_set_client"
    /\ UNCHANGED << exitStatus, sigVars, sockfd, closeCalls, fileVars, fpOpen,
                    bufVars, scanVars, sendVars, recvLeft, faultsLeft,
                    histVars >>

\* line 251: accept() returns -1: the descriptor was closed by the handler
\* (EBADF), the call was interrupted (EINTR), or the connection was aborted
LsAcceptFail ==
    /\ pc = "ls_accept"
    /\ clientfd' = NOFD
    /\ pc' = "ls_accept_failed"
    /\ UNCHANGED << exitStatus, sigVars, sockfd, fdVars, conns, fileVars,
                    fpOpen, bufVars, scanVars, sendVars, budgetVars, histVars >>

\* an accept failure that ends the loop whatever its reason
LsAcceptFailedFatal ==
    /\ pc = "ls_accept_failed"
    /\ pc' = "ls_closelog"
    /\ UNCHANGED << exitStatus, sigVars, sockfd, clientfd, fdVars, conns,
                    fileVars, fpOpen, bufVars, scanVars, sendVars,
                    budgetVars, histVars >>

\* lines 252-256: if (exit_requested) break; perror; continue
LsAcceptFailed ==
    /\ pc = "ls_accept_failed"
    /\ pc' = IF exit_requested THEN "ls_closelog" ELSE "ls_while"
    /\ UNCHANGED << exitStatus, sigVars, sockfd, clientfd, fdVars, conns,
                    fileVars, fpOpen, bufVars, scanVars, sendVars,
                    budgetVars, histVars >>

\* line 258: global_clientfd = clientfd
LsSetClient ==
    /\ pc = "ls_set_client"
    /\ global_clientfd' = clientfd
    /\ pc' = "hc_fopen"
    /\ UNCHANGED << exitStatus, exit_requested, global_sockfd, sockfd,
                    clientfd, fdVars, conns, fileVars, fpOpen, bufVars,
                    scanVars, sendVars, budgetVars, histVars >>

\* line 260: global_clientfd = -1
LsClearClient ==
    /\ pc = "ls_clear_client"
    /\ global_clientfd' = NOFD
    /\ pc' = "ls_while"
    /\ UNCHANGED << exitStatus, exit_requested, global_sockfd, sockfd,
                    clientfd, fdVars, conns, fileVars, fpOpen, bufVars,
                    scanVars, sendVars, budgetVars, histVars >>

\* lines 263-264: closelog(); return 0
LsCloselog ==
    /\ pc = "ls_closelog"
    /\ pc' = "main_close_sock"
    /\ UNCHANGED << exitStatus, sigVars, sockfd, clientfd, fdVars, conns,
                    fileVars, fpOpen, bufVars, scanVars, sendVars,
                    budgetVars, histVars >>

\* line 307: if (global_sockfd != -1) close(global_sockfd)
MainCloseSock ==
    /\ pc = "main_close_sock"
    /\ IF global_sockfd # NOFD
       THEN /\ openFds' = CloseFd(openFds, global_sockfd)
            /\ closeCalls' = Counted(closeCalls, global_sockfd)
       ELSE UNCHANGED fdVars
    /\ pc' = "main_remove"
    /\ UNCHANGED << exitStatus, sigVars, sockfd, clientfd, conns, fileVars,
                    fpOpen, bufVars, scanVars, sendVars, budgetVars, histVars >>

\* lines 308-310: remove(DATAFILE); return 0
MainRemove ==
    /\ pc = "main_remove"
    /\ storeExists' = RemoveFile(storeExists)
    /\ store' = IF RemoveFile(storeExists) THEN store ELSE <<>>
    /\ pc' = "exited"
    /\ exitStatus' = ReturnStatus(TRUE)
    /\ UNCHANGED << sigVars, sockfd, clientfd, fdVars, conns, fpOpen, bufVars,
                    scanVars, sendVars, budgetVars, histVars >>

\* ------------------------------------------------------------ handle_client
\* an early return that forgets close(clientfd)
HcErrReturn ==
    /\ pc = "hc_err_close"
    /\ LocalsGone
    /\ pc' = "ls_clear_client"
    /\ UNCHANGED << exitStatus, sigVars, sockfd, clientfd, fdVars, conns,
                    fileVars, fpOpen, bufAlloc, budgetVars, writes >>

\* an early return (lines 145-146, 154-155, 176-177, 205-206):
\* close(clientfd); return
HcErrClose ==
    /\ pc = "hc_err_close"
    /\ openFds' = CloseFd(openFds, clientfd)
    /\ closeCalls' = Counted(closeCalls, clientfd)
    /\ LocalsGone
    /\ pc' = "ls_clear_client"
    /\ UNCHANGED << exitStatus, sigVars, sockfd, clientfd, conns, fileVars,
                    fpOpen, bufAlloc, budgetVars, writes >>

\* lines 137-147: syslog; fp = fopen(DATAFILE, "a")
HcFopen ==
    /\ pc = "hc_fopen"
    /\ \/ /\ storeExists' = TRUE
          /\ store' = FOpenAppend(store)
          /\ fpOpen' = TRUE
          /\ pc' = "hc_malloc"
          /\ NoFault
          /\ UNCHANGED failure
       \/ /\ Fault
          /\ failure' = "fopen_a"
          /\ pc' = "hc_err_close"
          /\ UNCHANGED << fileVars, fpOpen >>
    /\ UNCHANGED << exitStatus, sigVars, sockfd, clientfd, fdVars, conns,
                    bufVars, scanVars, sendVars, recvLeft, connsLeft,
                    received, writes, reply, replyErr, replyShort, events >>

\* lines 149-160: recvbuf = malloc(bufsize); datalen = 0
HcMalloc ==
    /\ pc = "hc_malloc"
    /\ \/ /\ bufAlloc' = TRUE
          /\ bufsize' = INIT_BUFSIZE
          /\ recvbuf' = <<>>
          /\ datalen' = 0
          /\ pc' = "hc_while"
          /\ NoFault
          /\ UNCHANGED << fpOpen, failure >>
       \/ /\ Fault
          /\ failure' = "malloc"
          /\ fpOpen' = FALSE
          /\ pc' = "hc_err_close"
          /\ UNCHANGED bufVars
    /\ UNCHANGED << exitStatus, sigVars, sockfd, clientfd, fdVars, conns,
                    fileVars, scanVars, sendVars, recvLeft, connsLeft,
                    received, writes, reply, replyErr, replyShort, events >>

\* line 162: while (!exit_requested && ...
HcWhile ==
    /\ pc = "hc_while"
    /\ pc' = IF exit_requested THEN "hc_free" ELSE "hc_recv"
    /\ UNCHANGED << exitStatus, sigVars, sockfd, clientfd, fdVars, conns,
                    fileVars, fpOpen, bufVars, scanVars, sendVars,
                    budgetVars, histVars >>

\* line 162: n = recv(clientfd, temp, sizeof(temp), 0) delivers 1..512 bytes
HcRecvData ==
    /\ pc = "hc_recv"
    /\ clientfd \in openFds
    /\ recvLeft > 0
    /\ \E c \in ClientChunks :
          /\ temp' = c
          /\ n' = Len(c)
          /\ received' = received \o c
    /\ recvLeft' = recvLeft - 1
    /\ temp_offset' = 0
    /\ pc' = "hc_inner"
    /\ UNCHANGED << exitStatus, sigVars, sockfd, clientfd, fdVars, conns,
                    fileVars, fpOpen, bufVars, start, i, sendVars,
                    faultsLeft, connsLeft, writes, reply, replyErr,
                    replyShort, events, failure >>

\* line 162: recv returns 0: the peer has closed the connection
HcRecvEof ==
    /\ pc = "hc_recv"
    /\ clientfd \in openFds
    /\ n' = 0
    /\ pc' = "hc_free"
    /\ UNCHANGED << exitStatus, sigVars, sockfd, clientfd, fdVars, conns,
                    fileVars, fpOpen, bufVars, temp, temp_offset, start, i,
                    sendVars, budgetVars, histVars >>

\* line 162: recv returns -1: the handler closed the descriptor (EBADF), the
\* call was interrupted (EINTR), or the network failed
HcRecvErr ==
    /\ pc = "hc_recv"
    /\ IF clientfd \in openFds THEN Fault ELSE NoFault
    /\ n' = -1
    /\ failure' = "recv"
    /\ pc' = "hc_free"
    /\ UNCHANGED << exitStatus, sigVars, sockfd, clientfd, fdVars, conns,
                    fileVars, fpOpen, bufVars, temp, temp_offset, start, i,
                    sendVars, recvLeft, connsLeft, received, writes, reply,
                    replyErr, replyShort, events >>

\* a failed realloc after which fp is left open
GrowFailedLeak ==
    /\ failure' = "realloc"
    /\ bufAlloc' = FALSE
    /\ fpOpen' = fpOpen
    /\ pc' = "hc_err_close"

\* lines 172-177: realloc failed: syslog; free(recvbuf); fclose(fp); then
\* close(clientfd); return
GrowFailed ==
    /\ failure' = "realloc"
    /\ bufAlloc' = FALSE
    /\ fpOpen' = FALSE
    /\ pc' = "hc_err_close"

\* lines 165-191: while (temp_offset < n): resize recvbuf if needed, copy
\* temp into it, start = 0, i = 0
HcInner ==
    /\ pc = "hc_inner"
    /\ IF temp_offset < n
       THEN LET copylen == n - temp_offset
            IN  \/ /\ bufsize' = IF NeedsGrow(datalen, copylen, bufsize)
                                  THEN NewSize(bufsize, datalen + copylen)
                                  ELSE bufsize
                   /\ recvbuf' = CopiedIn(recvbuf, datalen, temp, temp_offset,
                                          copylen)
                   /\ datalen' = datalen + copylen
                   /\ temp_offset' = temp_offset + copylen
                   /\ start' = 0
                   /\ i' = 0
                   /\ pc' = "hc_scan"
                   /\ NoFault
                   /\ UNCHANGED << bufAlloc, fpOpen, failure >>
                \/ /\ NeedsGrow(datalen, copylen, bufsize)
                   /\ Fault
                   /\ GrowFailed
                   /\ UNCHANGED << bufsize, recvbuf, datalen, temp_offset,
                                   start, i >>
       ELSE /\ pc' = "hc_while"
            /\ NoFault
            /\ UNCHANGED << bufVars, fpOpen, failure, temp_offset, start, i >>
    /\ UNCHANGED << exitStatus, sigVars, sockfd, clientfd, fdVars, conns,
                    fileVars, temp, n, sendVars, recvLeft, connsLeft,
                    received, writes, reply, replyErr, replyShort, events >>

\* lines 191-192, 223-229: for (; i < datalen; ++i) if (recvbuf[i] == '\n');
\* when the loop runs off the end, the leftover is shifted to the start of
\* the buffer
HcScan ==
    /\ pc = "hc_scan"
    /\ i' = FindNewline(recvbuf, i, datalen)
    /\ IF FindNewline(recvbuf, i, datalen) < datalen
       THEN /\ pc' = "hc_fwrite"
            /\ UNCHANGED << recvbuf, datalen >>
       ELSE /\ recvbuf' = ShiftedBuf(recvbuf, start, datalen)
            /\ datalen' = ShiftedLen(start, datalen)
            /\ pc' = "hc_inner"
    /\ UNCHANGED << exitStatus, sigVars, sockfd, clientfd, fdVars, conns,
                    fileVars, fpOpen, bufAlloc, bufsize, temp, n, temp_offset,
                    start, sendVars, budgetVars, histVars >>

\* lines 193-197: fwrite(recvbuf + start, 1, pktlen, fp); fflush(fp);
\* neither result is looked at. A write that fails (disk full, I/O error)
\* leaves the file as it was.
HcFwrite ==
    /\ pc = "hc_fwrite"
    /\ LET pkt == Packet(recvbuf, start, i)
       IN  \/ /\ store' = FWrite(store, pkt)
              /\ writes' = Append(writes, [conn |-> clientfd, pkt |-> pkt,
                                           ok |-> TRUE])
              /\ events' = Append(events, "A")
              /\ NoFault
              /\ UNCHANGED failure
           \/ /\ Fault
              /\ failure' = "fwrite"
              /\ writes' = Append(writes, [conn |-> clientfd, pkt |-> pkt,
                                           ok |-> FALSE])
              /\ UNCHANGED << store, events >>
    /\ pc' = "hc_fopen_r"
    /\ UNCHANGED << exitStatus, sigVars, sockfd, clientfd, fdVars, conns,
                    storeExists, fpOpen, bufVars, scanVars, sendVars,
                    recvLeft, connsLeft, received, reply, replyErr,
                    replyShort >>

\* lines 199-207: fp2 = fopen(DATAFILE, "r")
HcFopenR ==
    /\ pc = "hc_fopen_r"
    /\ \/ /\ fpos' = 0
          /\ reply' = <<>>
          /\ replyErr' = FALSE
          /\ replyShort' = FALSE
          /\ pc' = "hc_fread"
          /\ NoFault
          /\ UNCHANGED << bufAlloc, fpOpen, failure >>
       \/ /\ Fault
          /\ failure' = "fopen_r"
          /\ bufAlloc' = FALSE
          /\ fpOpen' = FALSE
          /\ pc' = "hc_err_close"
          /\ UNCHANGED << fpos, reply, replyErr, replyShort >>
    /\ UNCHANGED << exitStatus, sigVars, sockfd, clientfd, fdVars, conns,
                    fileVars, bufsize, recvbuf, datalen, scanVars, sendbuf,
                    nn, recvLeft, connsLeft, received, writes, events >>

\* line 211: while ((nn = fread(sendbuf, 1, sizeof(sendbuf), fp2)) > 0)
HcFread ==
    /\ pc = "hc_fread"
    /\ sendbuf' = FRead(store, fpos)
    /\ nn' = Len(FRead(store, fpos))
    /\ fpos' = fpos + Len(FRead(store, fpos))
    /\ pc' = IF Len(FRead(store, fpos)) > 0 THEN "hc_send" ELSE "hc_fclose2"
    /\ UNCHANGED << exitStatus, sigVars, sockfd, clientfd, fdVars, conns,
                    fileVars, fpOpen, bufVars, scanVars, budgetVars,
                    histVars >>

\* line 212: send(clientfd, sendbuf, nn, 0) takes all nn bytes
HcSendAll ==
    /\ pc = "hc_send"
    /\ clientfd \in openFds
    /\ reply' = reply \o sendbuf
    /\ pc' = "hc_fread"
    /\ UNCHANGED << exitStatus, sigVars, sockfd, clientfd, fdVars, conns,
                    fileVars, fpOpen, bufVars, scanVars, sendVars,
                    budgetVars, received, writes, replyErr, replyShort,
                    events, failure >>

\* line 212: send takes fewer than nn bytes; its result is only compared
\* with 0, so the loop goes on with the next fread
HcSendShort ==
    /\ pc = "hc_send"
    /\ clientfd \in openFds
    /\ Fault
    /\ \E k \in ShortCounts(nn) : reply' = reply \o SubSeq(sendbuf, 1, k)
    /\ replyShort' = TRUE
    /\ pc' = "hc_fread"
    /\ UNCHANGED << exitStatus, sigVars, sockfd, clientfd, fdVars, conns,
                    fileVars, fpOpen, bufVars, scanVars, sendVars, recvLeft,
                    connsLeft, received, writes, replyErr, events, failure >>

\* lines 212-215: send returns -1 (EBADF after the handler closed the
\* descriptor, EINTR, ECONNRESET ...): syslog; break
HcSendErr ==
    /\ pc = "hc_send"
    /\ IF clientfd \in openFds THEN Fault ELSE NoFault
    /\ replyErr' = TRUE
    /\ failure' = "send"
    /\ pc' = "hc_fclose2"
    /\ UNCHANGED << exitStatus, sigVars, sockfd, clientfd, fdVars, conns,
                    fileVars, fpOpen, bufVars, scanVars, sendVars, recvLeft,
                    connsLeft, received, writes, reply, replyShort, events >>

\* line 212: the peer has closed the connection: send raises SIGPIPE (flags
\* are 0, no MSG_NOSIGNAL), for which main installs no handler (lines
\* 282-286 cover SIGINT and SIGTERM only): the process is terminated
HcSendSigpipe ==
    /\ pc = "hc_send"
    /\ clientfd \in openFds
    /\ failure' = "sigpipe"
    /\ pc' = "killed"
    /\ UNCHANGED << exitStatus, sigVars, sockfd, clientfd, fdVars, conns,
                    fileVars, fpOpen, bufVars, scanVars, sendVars,
                    budgetVars, received, writes, reply, replyErr,
                    replyShort, events >>

\* lines 217-221: fclose(fp2); start = i + 1; ++i
HcFclose2 ==
    /\ pc = "hc_fclose2"
    /\ start' = i + 1
    /\ i' = i + 1
    /\ events' = IF replyErr \/ reply = <<>> THEN events
                 ELSE Append(events, "R")
    /\ pc' = "hc_scan"
    /\ UNCHANGED << exitStatus, sigVars, sockfd, clientfd, fdVars, conns,
                    fileVars, fpOpen, bufVars, temp, n, temp_offset,
                    sendVars, budgetVars, received, writes, reply, replyErr,
                    replyShort, failure >>

\* lines 233-235: free(recvbuf); fclose(fp); close(clientfd)
HcFree ==
    /\ pc = "hc_free"
    /\ bufAlloc' = FALSE
    /\ fpOpen' = FALSE
    /\ openFds' = CloseFd(openFds, clientfd)
    /\ closeCalls' = Counted(closeCalls, clientfd)
    /\ pc' = "hc_log_closed"
    /\ UNCHANGED << exitStatus, sigVars, sockfd, clientfd, conns, fileVars,
                    bufsize, recvbuf, datalen, scanVars, sendVars,
                    budgetVars, histVars >>

\* lines 236-237: syslog("Closed connection"); return
HcLogClosed ==
    /\ pc = "hc_log_closed"
    /\ LocalsGone
    /\ pc' = "ls_clear_client"
    /\ UNCHANGED << exitStatus, sigVars, sockfd, clientfd, fdVars, conns,
                    fileVars, fpOpen, bufAlloc, budgetVars, writes >>

\* ------------------------------------------------------------ specification
HandleClient ==
    \/ HcFopen \/ HcMalloc \/ HcWhile \/ HcRecvData \/ HcRecvEof \/ HcRecvErr
    \/ HcInner \/ HcScan \/ HcFwrite \/ HcFopenR \/ HcFread \/ HcSendAll
    \/ HcSendShort \/ HcSendErr \/ HcSendSigpipe \/ HcFclose2 \/ HcFree
    \/ HcLogClosed \/ HcErrClose

ListenSocket ==
    \/ LsWhile \/ LsAcceptOk \/ LsAcceptFail \/ LsAcceptFailed
    \/ LsSetClient \/ LsClearClient \/ LsCloselog

Main == MainOpenSocket \/ MainSetGlobal \/ MainCloseSock \/ MainRemove

Next == Main \/ ListenSocket \/ HandleClient \/ Signal \/ SignalHang

Spec == Init /\ [][Next]_vars

\* The steps the process takes without waiting for its peer: every step but
\* a recv, send or accept on a descriptor that is still open.
Progress ==
    \/ Main
    \/ LsWhile \/ LsAcceptFailed \/ LsSetClient \/ LsClearClient \/ LsCloselog
    \/ (sockfd \notin openFds /\ LsAcceptFail)
    \/ HcFopen \/ HcMalloc \/ HcWhile \/ HcInner \/ HcScan \/ HcFwrite
    \/ HcFopenR \/ HcFread \/ HcFclose2 \/ HcFree \/ HcLogClosed
    \/ HcErrClose
    \/ (clientfd \notin openFds /\ (HcRecvErr \/ HcSendErr))

FairInit == InitWith(FairConns, FairRecv, FairFaults)
FairSpec == FairInit /\ [][Next]_vars /\ WF_vars(Progress)

\* ------------------------------------------------------------ vocabulary of the claims
InHandler ==
    pc \in { "hc_fopen", "hc_malloc", "hc_while", "hc_recv", "hc_inner",
             "hc_scan", "hc_fwrite", "hc_fopen_r", "hc_fread", "hc_send",
             "hc_fclose2", "hc_free", "hc_log_closed", "hc_err_close" }
\* between two ingests: the handler is about to test the loop or call recv
BetweenIngests == pc \in {"hc_while", "hc_recv"}
\* the fwrite calls of the current connection, and those that wrote
ConnWrites == SelectSeq(writes, LAMBDA w : w.conn = clientfd)
Yielded == PktsOf(ConnWrites)
OkWrites == SelectSeq(writes, LAMBDA w : w.ok)
Appended == PktsOf(SelectSeq(writes, LAMBDA w : w.ok /\ w.conn = clientfd))
EarlierAppended ==
    PktsOf(SelectSeq(writes, LAMBDA w : w.ok /\ w.conn < clientfd))
ClientFds == openFds \ {LISTEN_FD}
WellFormedPacket(p) == Len(p) > 0 /\ NLPositions(p) = {Len(p)}
\* CLOSING: the handler is releasing the connection's resources (lines
\* 233-237, or one of the early returns)
Closing == pc \in {"hc_free", "hc_log_closed", "hc_err_close"}

\* ------------------------------------------------------------ claims
\* C1: the packets handle_client hands to the store are a function of the
\* byte stream alone, however recv cut it into chunks: at every moment they
\* are the first packets of the stream received so far, between two ingests
\* they are all of its packets, and each one is a maximal run of bytes that
\* ends in, and holds, exactly one '\n'.
C1_FramingIndependentOfChunks ==
    InHandler =>
        LET yielded == Yielded
            framed == Packets(received)
        IN  /\ IsPrefix(yielded, framed)
            /\ BetweenIngests => yielded = framed
            /\ \A k \in 1..Len(yielded) : WellFormedPacket(yielded[k])
\* the stream "a\nb\nc\n" has arrived in two chunks, the second one a lone
\* delimiter, and given three packets
C1_Witness ==
    /\ pc = "hc_recv"
    /\ conns = 1
    /\ recvLeft = MaxRecv - 2
    /\ received = <<97, NL, 98, NL, 99, NL>>
    /\ Yielded = << <<97, NL>>, <<98, NL>>, <<99, NL>> >>

\* C2: between two ingests of an open connection, the packets appended to
\* the store by this connection, concatenated, are exactly the bytes the
\* client has sent up to and including the last delimiter, and the bytes
\* after it are held in the receive buffer.
C2_NoLossNoDuplication ==
    BetweenIngests =>
        /\ Flatten(Appended) = SubSeq(received, 1, LastNL(received))
        /\ SubSeq(recvbuf, 1, datalen)
              = SubSeq(received, LastNL(received) + 1, Len(received))

\* C3: when the reply to a packet has been sent without a send error, the
\* bytes put on the wire are the store's content, byte for byte.
C3_ReplyIsWholeStore ==
    (pc = "hc_fclose2" /\ ~replyErr) => reply = store

\* C4: the appends and replies of a connection alternate, append first (one
\* reply per appended packet, reply k before append k+1), and bytes go to
\* the client only in a reply that follows an append.
C4_AppendThenReply ==
    /\ \A k \in 1..Len(events) :
          events[k] = (IF k % 2 = 1 THEN "A" ELSE "R")
    /\ (InHandler /\ reply # <<>> /\ pc \in {"hc_fread", "hc_send"}) =>
          (events # <<>> /\ events[Len(events)] = "A")

\* C5: a reply that a connection served after earlier ones gets without a
\* send error holds the packets the earlier connections appended first, in
\* the order they were appended, and then the packets of the connection
\* itself.
C5_EarlierPacketsFirst ==
    (pc = "hc_fclose2" /\ ~replyErr /\ EarlierAppended # <<>>) =>
        reply = Flatten(EarlierAppended) \o Flatten(Appended)

\* C6: once the signal has been raised the process exits and every socket
\* is closed, and no connection is accepted after it.
C6_ShutdownPrompt ==
    /\ exit_requested ~> (pc = "exited")
    /\ exit_requested ~> (openFds = {})
    /\ [][exit_requested => conns' = conns]_vars

C8_StoreRemovedOnExit ==
    /\ []((pc = "exited" /\ exitStatus = 0) => ~storeExists)
    /\ [][(storeExists /\ ~storeExists') =>
             (pc = "main_remove" /\ ~InHandler /\ ~fpOpen /\ ~bufAlloc)]_vars
\* the process has exited with 0 after packets had been appended
C8_Witness ==
    /\ pc = "exited"
    /\ exitStatus = 0
    /\ OkWrites # <<>>
    /\ ~storeExists

\* C9: a failure inside a connection never ends the process, and the step
\* that fails leaves the store as it was.
C9_FailureIsolation ==
    /\ [](pc # "killed")
    /\ [][(failure' # failure /\ failure' # "none") => store' = store]_vars

\* C10: at most one client descriptor is open, and none is open, nor any
\* resource of handle_client held, when accept is called.
C10_OneConnection ==
    /\ Cardinality(ClientFds) <= 1
    /\ pc = "ls_accept" => (ClientFds = {} /\ ~fpOpen /\ ~bufAlloc)
\* the second connection is being served, the first is closed
C10_Witness ==
    /\ pc = "hc_recv"
    /\ clientfd = 2
    /\ ClientFds = {2}

\* C11: on a process that started with no store, when the first packet has
\* been appended and its reply sent without a send error, the store is
\* exactly that packet, the packet is the first one of the client's stream,
\* and the bytes put on the wire are exactly that packet.
C11_EmptyStart ==
    (pc = "hc_fclose2" /\ Len(writes) = 1 /\ writes[1].ok /\ ~replyErr) =>
        /\ writes[1].pkt = Packets(received)[1]
        /\ store = writes[1].pkt
        /\ reply = writes[1].pkt

\* C12: main returns 0 only after the shutdown signal, and 1 exactly when
\* open_socket failed, in which case no connection was ever accepted.
C12_ExitStatus ==
    pc = "exited" =>
        /\ exitStatus \in {0, 1}
        /\ exitStatus = 0 => (exit_requested /\ sockfd = LISTEN_FD)
        /\ exitStatus = 1 <=> sockfd = NOFD
        /\ exitStatus = 1 => (conns = 0 /\ connsLeft = MaxConns /\ writes = <<>>)
\* open_socket has failed and main has returned 1
C12_Witness ==
    /\ pc = "exited"
    /\ exitStatus = 1
    /\ sockfd = NOFD
    /\ conns = 0

\* C13: once an append of the current connection has failed, the handler is
\* in CLOSING: it sends no reply for that packet and appends no later one.
C13_AppendFailureAborts ==
    (InHandler /\ \E k \in 1..Len(ConnWrites) : ~ConnWrites[k].ok) => Closing

\* C14: once a send of a reply has failed, the handler closes the file it
\* was reading and is in CLOSING: it appends no further packet and calls
\* neither send nor recv again.
C14_SendErrorAborts ==
    (InHandler /\ replyErr) => (pc = "hc_fclose2" \/ Closing)

\* C15: as long as no send has failed, every byte read from the store for
\* the current reply has been put on the wire, once and in order, each time
\* the handler goes back to fread.
C15_PartialSendsCompleted ==
    (pc \in {"hc_fread", "hc_fclose2"} /\ ~replyErr) =>
        reply = SubSeq(store, 1, fpos)

\* C16: once the shutdown signal has been raised no append is started: the
\* handler does not arrive at fwrite (an fwrite it had already arrived at
\* may complete).
C16_NoAppendAfterShutdown ==
    [][(exit_requested /\ pc # "hc_fwrite") => pc' # "hc_fwrite"]_vars

\* C17: when growing the receive buffer has failed, no packet holding a
\* byte of the chunk just received has been handed to the store, the buffer
\* and the store handle are released, and the handler's next step closes
\* the client socket and returns, the store being what it was.
C17_GrowthFailureClean ==
    /\ []((pc = "hc_err_close" /\ failure = "realloc") =>
            /\ ~bufAlloc
            /\ ~fpOpen
            /\ Yielded = Packets(SubSeq(received, 1, Len(received) - n))
            /\ store = Flatten(PktsOf(OkWrites)))
    /\ [][(pc = "hc_err_close" /\ failure = "realloc" /\ pc' # pc) =>
            /\ pc' = "ls_clear_client"
            /\ clientfd \notin openFds'
            /\ store' = store]_vars
\* realloc has failed on the second full chunk of a connection
C17_Witness ==
    /\ pc = "hc_err_close"
    /\ failure = "realloc"
    /\ received = Filler \o Filler
    /\ n = TEMP_SIZE

\* C18: while the handler holds its buffer, datalen is the number of bytes
\* in it and never exceeds bufsize; each time the handler is about to test
\* the loop or call recv the buffer holds no delimiter and is exactly the
\* bytes received since the last delimiter, so it is empty when the
\* connection starts.
C18_ReceiveBufferInvariant ==
    /\ (InHandler /\ bufAlloc) =>
          (datalen <= bufsize /\ Len(recvbuf) = datalen)
    /\ BetweenIngests =>
          /\ NLPositions(recvbuf) = {}
          /\ recvbuf = SubSeq(received, LastNL(received) + 1, Len(received))
          /\ received = <<>> => datalen = 0
\* the buffer has been grown for the second full chunk and holds both
C18_Witness ==
    /\ pc = "hc_recv"
    /\ bufsize = 2 * INIT_BUFSIZE
    /\ datalen = 2 * TEMP_SIZE
    /\ recvbuf = Filler \o Filler

\* C19: after a failed accept the loop is left for closelog if the shutdown
\* signal has been raised; otherwise it goes back to its test, unless a
\* signal raised meanwhile stops it; the test calls accept again unless the
\* signal has been raised, and a failed accept never ends the process by
\* itself.
C19_AcceptFailureHandling ==
    /\ [][(pc = "ls_accept_failed" /\ exit_requested /\ pc' # pc) =>
            pc' = "ls_closelog"]_vars
    /\ [][(pc = "ls_accept_failed" /\ ~exit_requested /\ pc' # pc) =>
            (pc' = "ls_while" \/ (exit_requested' /\ pc' = "hung"))]_vars
    /\ [][(pc = "ls_while" /\ pc' # pc) =>
            pc' = (IF exit_requested THEN "ls_closelog" ELSE "ls_accept")]_vars
    /\ [][(pc \in {"ls_accept", "ls_accept_failed"}) =>
            (pc' \notin {"exited", "killed"} /\ store' = store
             /\ conns' \in {conns, conns + 1})]_vars
\* accept has failed, with no signal raised, after a connection was served
C19_Witness ==
    /\ pc = "ls_accept_failed"
    /\ ~exit_requested
    /\ conns = 1
    /\ sockfd \in openFds

\* C20: every step by which the handler returns is the one that emits the
\* connection-closed notification, taken with the client socket closed and
\* the buffer and the store handle released; and the handler never calls
\* recv or send once it is in CLOSING.
C20_ClosingComplete ==
    /\ [][(InHandler /\ pc' = "ls_clear_client") =>
            /\ pc = "hc_log_closed"
            /\ clientfd \notin openFds'
            /\ ~bufAlloc'
            /\ ~fpOpen']_vars
    /\ [][Closing => pc' \notin {"hc_recv", "hc_send"}]_vars

\* C21: no socket descriptor is ever closed more than once, global_clientfd
\* names a descriptor only while that descriptor is open, and when main has
\* returned 0 the listening descriptor and every accepted client descriptor
\* have been closed exactly once.
C21_ClosedExactlyOnce ==
    /\ \A fd \in DOMAIN closeCalls : closeCalls[fd] <= 1
    /\ global_clientfd # NOFD => global_clientfd \in openFds
    /\ (pc = "exited" /\ exitStatus = 0) =>
          \A fd \in LISTEN_FD..conns : closeCalls[fd] = 1

====
